---------------------------- MODULE Spec2Model ----------------------------
(***************************************************************************)
(* DORA Quick Check: the wizard component DoraQuickCheck.tsx.              *)
(*                                                                         *)
(* State: the wizard step and the six input fields (each the empty string  *)
(* or a number).  validNumbers and metrics are useMemo projections of the  *)
(* state, modelled as operators of the state.                              *)
(*                                                                         *)
(* The report-export route api/send-results/route.ts is a second state     *)
(* machine, on the variable post: the request in hand, the handler's       *)
(* position in it, and what the caller got.  The component never calls the *)
(* route, so each has a specification of its own: Spec and SpecPost.       *)
(*                                                                         *)
(* Numbers.  A JavaScript number is modelled as one of                     *)
(*   [k |-> "fin", n |-> Int, d |-> Nat \ {0}]   the rational n/d, reduced *)
(*   [k |-> "nan"], [k |-> "inf"], [k |-> "ninf"]                          *)
(* Arithmetic on finite numbers is exact rational arithmetic; the rounding *)
(* error of IEEE doubles is not modelled.                                  *)
(* Strings delivered by change events are sequences of one-character       *)
(* strings, converted by ToNumber as unary plus converts them.             *)
(***************************************************************************)
EXTENDS Integers, Sequences, FiniteSets, TLC

VARIABLES step, deploys, team, squads, errors, leadDays, mttrHours, lastChange,
          post

\* The state of the wizard component.
wizard == <<step, deploys, team, squads, errors, leadDays, mttrHours, lastChange>>

vars == <<wizard, post>>

---------------------------------------------------------------------------
(* Bounds of the model *)

\* Number.MAX_SAFE_INTEGER is 2^53 - 1, beyond the integers TLC computes with.
\* The upper limit of clampNum is modelled by this bound, which lies above
\* every threshold the classifiers and progress bars use.
MaxSafe == 10000

---------------------------------------------------------------------------
(* Rational arithmetic *)

Abs(x) == IF x < 0 THEN -x ELSE x

RECURSIVE Gcd(_, _)
Gcd(a, b) == IF b = 0 THEN a ELSE Gcd(b, a % b)

\* The rational n/d (d # 0) in lowest terms with a positive denominator.
Fin(n, d) ==
  LET g == Gcd(Abs(n), Abs(d))
      s == IF d < 0 THEN -1 ELSE 1
  IN  [k |-> "fin", n |-> s * (n \div g), d |-> s * (d \div g)]

Int0(n) == [k |-> "fin", n |-> n, d |-> 1]

NaN    == [k |-> "nan"]
PosInf == [k |-> "inf"]
NegInf == [k |-> "ninf"]

\* The state value "" of an empty field, and null.
EmptyStr == [k |-> "str"]
Null     == [k |-> "null"]

IsNumber(x) == x.k \in {"fin", "nan", "inf", "ninf"}   \* typeof x === "number"
isFinite(x) == x.k = "fin"

\* Comparisons of finite numbers.
Lt(a, b) == a.n * b.d < b.n * a.d
Le(a, b) == a.n * b.d <= b.n * a.d
Ge(a, b) == Le(b, a)
Gt(a, b) == Lt(b, a)

Add(a, b) == Fin(a.n * b.d + b.n * a.d, a.d * b.d)
Sub(a, b) == Fin(a.n * b.d - b.n * a.d, a.d * b.d)

\* Product, cross-reduced before multiplying.
Mul(a, b) ==
  LET g1 == Gcd(Abs(a.n), b.d)
      g2 == Gcd(Abs(b.n), a.d)
  IN  Fin((a.n \div g1) * (b.n \div g2), (a.d \div g2) * (b.d \div g1))

\* JavaScript's / on finite operands: x/0 is NaN for x = 0 and an infinity
\* otherwise.
Div(a, b) ==
  IF b.n = 0
    THEN IF a.n = 0 THEN NaN ELSE IF a.n > 0 THEN PosInf ELSE NegInf
    ELSE Mul(a, Fin(b.d, b.n))

MathMin(a, b) == IF Le(a, b) THEN a ELSE b
MathMax(a, b) == IF Ge(a, b) THEN a ELSE b

\* Math.round: the nearest integer, ties towards +infinity: floor(x + 1/2).
MathRound(x) == Int0((2 * x.n + x.d) \div (2 * x.d))


---------------------------------------------------------------------------
(* Strings and their conversion to numbers *)

DigitOf == "0" :> 0 @@ "1" :> 1 @@ "2" :> 2 @@ "3" :> 3 @@ "4" :> 4 @@
           "5" :> 5 @@ "6" :> 6 @@ "7" :> 7 @@ "8" :> 8 @@ "9" :> 9

IsDigit(c) == c \in DOMAIN DigitOf

RECURSIVE TrimLeft(_)
TrimLeft(s) == IF s # <<>> /\ Head(s) = " " THEN TrimLeft(Tail(s)) ELSE s

RECURSIVE TrimRight(_)
TrimRight(s) ==
  IF s # <<>> /\ s[Len(s)] = " " THEN TrimRight(SubSeq(s, 1, Len(s) - 1)) ELSE s

RECURSIVE Pow10(_)
Pow10(e) == IF e = 0 THEN 1 ELSE 10 * Pow10(e - 1)

\* The value of a sequence of decimal digits.
RECURSIVE DigitsValue(_)
DigitsValue(s) ==
  IF s = <<>> THEN 0
  ELSE 10 * DigitsValue(SubSeq(s, 1, Len(s) - 1)) + DigitOf[s[Len(s)]]

INFINITY_LITERAL == <<"I", "n", "f", "i", "n", "i", "t", "y">>

\* An unsigned decimal literal: digits with at most one point and at least
\* one digit (exponent, hexadecimal, octal and binary forms are outside the
\* alphabet of the modelled inputs).
UnsignedDecimal(s) ==
  LET dots   == {i \in 1..Len(s) : s[i] = "."}
      others == {i \in 1..Len(s) : s[i] # "." /\ ~IsDigit(s[i])}
  IN  IF others # {} \/ Cardinality(dots) > 1 \/ Len(s) = Cardinality(dots)
        THEN NaN
        ELSE LET p    == IF dots = {} THEN Len(s) + 1 ELSE CHOOSE i \in dots : TRUE
                 int  == SubSeq(s, 1, p - 1)
                 frac == SubSeq(s, p + 1, Len(s))
             IN  Fin(DigitsValue(int \o frac), Pow10(Len(frac)))

Negate(x) ==
  CASE x.k = "fin"  -> Fin(-x.n, x.d)
    [] x.k = "inf"  -> NegInf
    [] x.k = "ninf" -> PosInf
    [] OTHER        -> x

\* Unary plus applied to a string (StringToNumber): white space is trimmed,
\* the empty string is 0, an optional sign precedes Infinity or a decimal
\* literal, and anything else is NaN.  (-0 is modelled as 0.)
ToNumber(v) ==
  LET t    == TrimRight(TrimLeft(v))
      sign == IF t # <<>> /\ Head(t) \in {"+", "-"} THEN Head(t) ELSE ""
      body == IF sign = "" THEN t ELSE Tail(t)
      mag  == IF body = INFINITY_LITERAL THEN PosInf ELSE UnsignedDecimal(body)
  IN  IF t = <<>> THEN Int0(0)
      ELSE IF sign = "-" THEN Negate(mag) ELSE mag

---------------------------------------------------------------------------
(* Helpers *)

\* Mutant of clampNum: the lower limit Math.max(v, min) left out.
clampNum_noMin(v) ==
  IF isFinite(v) THEN MathMin(v, Int0(MaxSafe)) ELSE Int0(0)

\* clampNum(v, min = 0, max = Number.MAX_SAFE_INTEGER)
clampNum(v) ==
  IF isFinite(v) THEN MathMin(MathMax(v, Int0(0)), Int0(MaxSafe)) ELSE Int0(0)


\* DORA thresholds: the minPerMonth of each frequency tier.
DORA_FREQ == [elite |-> Int0(30), high |-> Int0(4), medium |-> Int0(1), low |-> Int0(0)]

\* Mutant of freqTier: the elite threshold compared with > instead of >=.
freqTier_strictElite(perMonth) ==
  IF Gt(perMonth, DORA_FREQ.elite) THEN "elite"
  ELSE IF Ge(perMonth, DORA_FREQ.high) THEN "high"
  ELSE IF Ge(perMonth, DORA_FREQ.medium) THEN "medium"
  ELSE IF Gt(perMonth, Int0(0)) THEN "low"
  ELSE "na"

\* A comparison with NaN is false; the classifiers are only applied to
\* finite numbers or null.
freqTier(perMonth) ==
  IF Ge(perMonth, DORA_FREQ.elite) THEN "elite"
  ELSE IF Ge(perMonth, DORA_FREQ.high) THEN "high"
  ELSE IF Ge(perMonth, DORA_FREQ.medium) THEN "medium"
  ELSE IF Gt(perMonth, Int0(0)) THEN "low"
  ELSE "na"

\* Mutant of cfrTier: the elite bound compared with < instead of <=.
cfrTier_strictElite(cfr) ==
  IF cfr = Null THEN "na"
  ELSE IF Lt(cfr, Fin(15, 100)) THEN "elite"
  ELSE IF Le(cfr, Fin(3, 10)) THEN "medium"
  ELSE "low"

cfrTier(cfr) ==
  IF cfr = Null THEN "na"
  ELSE IF Le(cfr, Fin(15, 100)) THEN "elite"
  ELSE IF Le(cfr, Fin(3, 10)) THEN "medium"
  ELSE "low"

leadTier(days) ==
  IF days = Null THEN "na"
  ELSE IF Le(days, Int0(1)) THEN "elite"
  ELSE IF Le(days, Int0(7)) THEN "high"
  ELSE IF Le(days, Int0(30)) THEN "medium"
  ELSE "low"

\* Mutant of mttrTier: a week taken as 24 * 7 - 1 hours.
mttrTier_shortWeek(hours) ==
  IF hours = Null THEN "na"
  ELSE IF Le(hours, Int0(1)) THEN "elite"
  ELSE IF Le(hours, Int0(24)) THEN "high"
  ELSE IF Le(hours, Int0(24 * 7 - 1)) THEN "medium"
  ELSE "low"

mttrTier(hours) ==
  IF hours = Null THEN "na"
  ELSE IF Le(hours, Int0(1)) THEN "elite"
  ELSE IF Le(hours, Int0(24)) THEN "high"
  ELSE IF Le(hours, Int0(24 * 7)) THEN "medium"
  ELSE "low"

\* A text: the template that produced it and the values interpolated into
\* it, in order.  The empty string has the empty template and no values.
Text(tpl, args) == [tpl |-> tpl, args |-> args]

EmptyText == Text("", <<>>)

LEADER_TEXT == Text("You're at leader level - keep it up!", <<>>)

\* An argument the call site leaves out.
Undefined == [k |-> "undefined"]

\* tierGapText below its first line: the branches of the four metrics.
tierGapBranches(t, metric, perMonth, cfr, leadDays_, mttrHours_) ==
  LET needed == MathMax(Int0(0), Sub(Int0(30), perMonth))
      pct    == MathRound(Mul(cfr, Int0(100)))
  IN
  IF metric = "freq" /\ IsNumber(perMonth) /\ t = "high"
    THEN Text("~${needed} more deploys/mo to reach Elite (>=30/mo).", <<needed>>)
  ELSE IF metric = "freq" /\ IsNumber(perMonth) /\ t = "medium"
    THEN Text("Increase cadence by ~${Math.max(0, 4 - perMonth)}+/mo to reach High, ~${needed} to reach Elite.",
              <<MathMax(Int0(0), Sub(Int0(4), perMonth)), needed>>)
  ELSE IF metric = "freq" /\ IsNumber(perMonth) /\ t = "low"
    THEN Text("Raise to >=1/mo for Medium; aim for 30/mo to match Elite.", <<>>)
  ELSE IF metric = "cfr" /\ IsNumber(cfr) /\ t = "medium"
    THEN Text("Reduce change failures to <=15% (now ~${pct}%).", <<pct>>)
  ELSE IF metric = "cfr" /\ IsNumber(cfr) /\ t = "low"
    THEN Text("High failure rate (~${pct}%). Target <=15% for Elite/High.", <<pct>>)
  ELSE IF metric = "lead" /\ leadDays_ \notin {Null, Undefined} /\ t = "high"
    THEN Text("Trim lead time to <=1 day (now ~${leadDays}d) via smaller batches & faster reviews.", <<leadDays_>>)
  ELSE IF metric = "lead" /\ leadDays_ \notin {Null, Undefined} /\ t = "medium"
    THEN Text("Bring lead time under 1 week (now ~${leadDays}d) with CI/CD & WIP limits.", <<leadDays_>>)
  ELSE IF metric = "lead" /\ leadDays_ \notin {Null, Undefined} /\ t = "low"
    THEN Text("Lead time is long (~${leadDays}d). Aim <=30d for Medium and <=1d for Elite.", <<leadDays_>>)
  ELSE IF metric = "mttr" /\ mttrHours_ \notin {Null, Undefined} /\ t = "high"
    THEN Text("Reduce MTTR to <=1 hour (now ~${mttrHours}h) via fast rollback & auto-remediation.", <<mttrHours_>>)
  ELSE IF metric = "mttr" /\ mttrHours_ \notin {Null, Undefined} /\ t = "medium"
    THEN Text("Bring MTTR under 24h (now ~${mttrHours}h) with better alerting & runbooks.", <<mttrHours_>>)
  ELSE IF metric = "mttr" /\ mttrHours_ \notin {Null, Undefined} /\ t = "low"
    THEN Text("MTTR is high (~${mttrHours}h). Target <=168h (1 week) then <=1h for Elite.", <<mttrHours_>>)
  ELSE EmptyText

\* Mutant of tierGapText: the elite check left out.
tierGapText_noLeader(t, metric, perMonth, cfr, leadDays_, mttrHours_) ==
  tierGapBranches(t, metric, perMonth, cfr, leadDays_, mttrHours_)

tierGapText(t, metric, perMonth, cfr, leadDays_, mttrHours_) ==
  IF t = "elite" THEN LEADER_TEXT
  ELSE tierGapBranches(t, metric, perMonth, cfr, leadDays_, mttrHours_)

---------------------------------------------------------------------------
(* The component's derived values *)

\* Mutant of OrOne: the fallback || 1 left out.
OrOne_noFallback(x) == x

\* x || 1 for a number x: 0 and NaN are falsy.
OrOne(x) == IF x.k = "nan" \/ (x.k = "fin" /\ x.n = 0) THEN Int0(1) ELSE x

\* Mutant of validNumbers: the optional fields tested for truthiness, so
\* that an entered 0 counts as absent.
validNumbers_falsyOptional ==
  LET d  == IF IsNumber(deploys) THEN deploys ELSE Int0(0)
      t  == IF IsNumber(team) THEN team ELSE Int0(0)
      s  == IF IsNumber(squads) THEN squads ELSE Int0(1)
      e  == IF IsNumber(errors) THEN errors ELSE Int0(0)
      ld == IF IsNumber(leadDays) /\ leadDays # Int0(0) THEN leadDays ELSE Null
      mh == IF IsNumber(mttrHours) /\ mttrHours # Int0(0) THEN mttrHours ELSE Null
  IN  [d |-> d, t |-> t, s |-> OrOne(s), e |-> e, ld |-> ld, mh |-> mh]

validNumbers ==
  LET d  == IF IsNumber(deploys) THEN deploys ELSE Int0(0)
      t  == IF IsNumber(team) THEN team ELSE Int0(0)
      s  == IF IsNumber(squads) THEN squads ELSE Int0(1)
      e  == IF IsNumber(errors) THEN errors ELSE Int0(0)
      ld == IF IsNumber(leadDays) THEN leadDays ELSE Null
      mh == IF IsNumber(mttrHours) THEN mttrHours ELSE Null
  IN  [d |-> d, t |-> t, s |-> OrOne(s), e |-> e, ld |-> ld, mh |-> mh]

\* Truthiness of a finite number.
Truthy(x) == x.n # 0

perSquadOf(d, s) == Div(d, s)

perEngOf(d, t) == IF Truthy(t) THEN Div(d, t) ELSE Int0(0)

\* Mutant of cfrOf: the cap Math.min(1, ...) left out.
cfrOf_noCap(d, e) == IF Gt(d, Int0(0)) THEN Div(e, d) ELSE Null

cfrOf(d, e) == IF Gt(d, Int0(0)) THEN MathMin(Int0(1), Div(e, d)) ELSE Null

freqPctOf(d) == MathMin(Int0(100), MathRound(Mul(Div(d, Int0(30)), Int0(100))))

cfrPctOf(cfr) ==
  IF cfr = Null THEN Int0(0)
  ELSE MathMax(Int0(0),
         MathRound(Mul(Sub(Int0(1), Div(cfr, Fin(3, 10))), Int0(100))))

\* Mutant of ltPctOf: the upper clamp Math.min(100, ...) left out.
ltPctOf_noUpperClamp(ld) ==
  IF ld = Null THEN Int0(0)
  ELSE MathMax(Int0(0),
         MathRound(Mul(Sub(Int0(1), Div(Sub(ld, Int0(1)), Int0(29))), Int0(100))))

ltPctOf(ld) ==
  IF ld = Null THEN Int0(0)
  ELSE MathMax(Int0(0), MathMin(Int0(100),
         MathRound(Mul(Sub(Int0(1), Div(Sub(ld, Int0(1)), Int0(29))), Int0(100)))))

\* Mutant of mttrPctOf: the sign of the slope slipped, 1 + (mh - 1) / 167.
mttrPctOf_signSlip(mh) ==
  IF mh = Null THEN Int0(0)
  ELSE MathMax(Int0(0), MathMin(Int0(100),
         MathRound(Mul(Add(Int0(1), Div(Sub(mh, Int0(1)), Int0(168 - 1))), Int0(100)))))

mttrPctOf(mh) ==
  IF mh = Null THEN Int0(0)
  ELSE MathMax(Int0(0), MathMin(Int0(100),
         MathRound(Mul(Sub(Int0(1), Div(Sub(mh, Int0(1)), Int0(168 - 1))), Int0(100)))))

\* The values of the metrics memo, each as a projection of the state.
perSquad == perSquadOf(validNumbers.d, validNumbers.s)
perEng   == perEngOf(validNumbers.d, validNumbers.t)
cfr      == cfrOf(validNumbers.d, validNumbers.e)
freq     == freqTier(validNumbers.d)
cfrT     == cfrTier(cfr)
ltT      == leadTier(validNumbers.ld)
mttrT    == mttrTier(validNumbers.mh)
freqPct  == freqPctOf(validNumbers.d)
cfrPct   == cfrPctOf(cfr)
ltPct    == ltPctOf(validNumbers.ld)
mttrPct  == mttrPctOf(validNumbers.mh)

metrics ==
  [perSquad |-> perSquad, perEng |-> perEng, cfr |-> cfr, freq |-> freq,
   cfrT |-> cfrT, freqPct |-> freqPct, cfrPct |-> cfrPct, ltT |-> ltT,
   mttrT |-> mttrT, ltPct |-> ltPct, mttrPct |-> mttrPct]

\* The four tierGapText calls of the results card, by tier and value.
freqGapTextOf(t, d)  == tierGapText(t, "freq", d, Undefined, Undefined, Undefined)
cfrGapTextOf(t, c)   == tierGapText(t, "cfr", Undefined, c, Undefined, Undefined)
leadGapTextOf(t, ld) == tierGapText(t, "lead", Undefined, Null, ld, Undefined)
mttrGapTextOf(t, mh) == tierGapText(t, "mttr", Undefined, Null, Null, mh)

\* The four advisory texts of the results card.
freqGapText == freqGapTextOf(freq, validNumbers.d)
cfrGapText  == cfrGapTextOf(cfrT, cfr)
leadGapText == leadGapTextOf(ltT, validNumbers.ld)
mttrGapText == mttrGapTextOf(mttrT, validNumbers.mh)

---------------------------------------------------------------------------
(* The strings the change events deliver *)

\* Strings every input may receive: the empty string, a blank, a
\* non-numeric word, the infinities and a negative number.
CommonInputs ==
  { <<>>,
    <<" ">>,
    <<"a", "b", "c">>,
    INFINITY_LITERAL,
    <<"-">> \o INFINITY_LITERAL,
    <<"-", "5">> }

DeploysInputs ==
  CommonInputs \cup
  { <<"0">>, <<"0", ".", "5">>, <<"1">>, <<"1", "2">>,
    <<"2", "9", ".", "9">>, <<"3", "0">>, <<"2", "0", "0", "0", "0">> }

TeamInputs == CommonInputs \cup { <<"0">>, <<"2", "0">> }

SquadsInputs == CommonInputs \cup { <<"0">>, <<"0", ".", "5">>, <<"4">> }

ErrorsInputs ==
  CommonInputs \cup
  { <<"0">>, <<"0", ".", "1", "5">>, <<"0", ".", "1", "5", "1">>,
    <<"0", ".", "3", "1">>, <<"2">> }

LeadDaysInputs ==
  CommonInputs \cup
  { <<"0">>, <<"1">>, <<"3">>, <<"7">>, <<"3", "0">>, <<"3", "1">> }

MttrHoursInputs ==
  CommonInputs \cup
  { <<"0">>, <<"1">>, <<"8">>, <<"2", "4">>, <<"1", "6", "8">>, <<"1", "6", "9">> }

---------------------------------------------------------------------------
(* The report-export route: POST of api/send-results/route.ts *)

\* The values JSON.parse produces.  Numbers are Fin(n, d), null is Null, and
\* a property an object lacks reads as Undefined.
JStr(s) == [k |-> "string", s |-> s]
JObj(props) == [k |-> "object", props |-> props]

\* A request body that is not JSON text.
NotJson == [k |-> "invalid"]

\* x.f: undefined when x is a primitive or an object without the property.
Get(x, f) ==
  IF x.k = "object" /\ f \in DOMAIN x.props THEN x.props[f] ELSE Undefined

\* Reading a property of undefined or null throws a TypeError.
ReadThrows(x) == x \in {Undefined, Null}

\* x.toFixed(..) throws unless x is a number: undefined and null have no
\* properties, and no other JSON value has a toFixed method.
ToFixedThrows(x) == ~IsNumber(x)

\* x.toUpperCase() throws unless x is a string.
ToUpperCaseThrows(x) == x.k # "string"

\* await request.json() and the destructuring of line 5: the body has to be
\* JSON text, and its value must not be null.
JsonThrows(body) == body = NotJson \/ ReadThrows(body)

\* The text template of lines 8-44.
ResultsTextThrows(body) ==
  LET results == Get(body, "results")
      m == Get(body, "metrics")
  IN  \/ ReadThrows(m)
      \/ ReadThrows(results)
      \/ ToFixedThrows(Get(m, "perSquad"))
      \/ ToFixedThrows(Get(m, "perEng"))

\* The HTML template of lines 47-120.
ResultsHtmlThrows(body) ==
  LET results == Get(body, "results")
      m == Get(body, "metrics")
  IN  \/ ReadThrows(m)
      \/ ReadThrows(results)
      \/ ToUpperCaseThrows(Get(m, "freqT"))
      \/ ToFixedThrows(Get(m, "perSquad"))
      \/ ToFixedThrows(Get(m, "perEng"))
      \/ ToUpperCaseThrows(Get(m, "cfrT"))
      \/ ToUpperCaseThrows(Get(m, "ltT"))
      \/ ToUpperCaseThrows(Get(m, "mttrT"))

\* The responses of the handler, and the outcome of a call whose exception
\* reaches the caller.
SuccessResponse == [k |-> "response", status |-> 200, json |-> "success"]
ErrorResponse == [k |-> "response", status |-> 500, json |-> "error"]
Escaped == [k |-> "exception"]
NoResponse == [k |-> "none"]

\* The try block with the templates left outside it.
InTry_templatesOutside(pc) == pc \in {"json", "respond"}

\* The positions of the handler the try block of lines 4-142 covers.
InTry(pc) == pc \in {"json", "text", "html", "respond"}

\* The request bodies of the model.
FreqTValues == {Undefined, JStr("elite"), Int0(1)}
CfrTValues == {Undefined, JStr("high")}
LtTValues == {JStr("medium"), Int0(1)}
MttrTValues == {Null, JStr("low")}
PerSquadValues == {Undefined, Fin(3, 2), JStr("1.5")}
PerEngValues == {Fin(3, 5), JStr("0.6")}
CfrFieldValues == {Null, Fin(1, 10)}

MetricsObjects ==
  { JObj(m) : m \in [freqT : FreqTValues, cfrT : CfrTValues,
                     ltT : LtTValues, mttrT : MttrTValues,
                     perSquad : PerSquadValues, perEng : PerEngValues,
                     cfr : CfrFieldValues] }

MetricsValues == MetricsObjects \cup {Undefined, Null, JStr("fast"), Int0(7)}

ResultsValues ==
  { Undefined,
    JObj([deploys |-> Int0(12), team |-> Int0(20), squads |-> Int0(4),
          errors |-> Int0(2), leadDays |-> Int0(3), mttrHours |-> Int0(8)]),
    JObj([deploys |-> JStr("many"), team |-> Undefined, squads |-> Undefined,
          errors |-> Undefined, leadDays |-> Null, mttrHours |-> Null]) }

EmailValues == {Undefined, JStr("a@b.c")}

Bodies ==
  {NotJson, Null, Int0(5), JStr("report")} \cup
  { JObj(b) : b \in [email : EmailValues, results : ResultsValues,
                     metrics : MetricsValues] }

\* No request in hand.
PostIdle == [pc |-> "idle", body |-> NoResponse, response |-> NoResponse]

\* An exception thrown at a position of the handler: inside the try block
\* it is caught, outside it leaves the handler.
Throw(pc) ==
  IF InTry(pc)
    THEN post' = [post EXCEPT !.pc = "catch"]
    ELSE post' = [post EXCEPT !.pc = "done", !.response = Escaped]

\* One step of the handler body: it throws or it goes on.
Proceed(throws, to) ==
  IF throws THEN Throw(post.pc) ELSE post' = [post EXCEPT !.pc = to]

\* A request arrives.
POST(body) ==
  /\ post.pc \in {"idle", "done"}
  /\ post' = [pc |-> "json", body |-> body, response |-> NoResponse]
  /\ UNCHANGED wizard

\* Line 5: const { email, results, metrics } = await request.json()
RequestJson ==
  /\ post.pc = "json"
  /\ Proceed(JsonThrows(post.body), "text")
  /\ UNCHANGED wizard

\* Lines 8-44: const resultsText = ...
ResultsText ==
  /\ post.pc = "text"
  /\ Proceed(ResultsTextThrows(post.body), "html")
  /\ UNCHANGED wizard

\* Lines 47-120: const resultsHtml = ...
ResultsHtml ==
  /\ post.pc = "html"
  /\ Proceed(ResultsHtmlThrows(post.body), "respond")
  /\ UNCHANGED wizard

\* Lines 123-141: the email data is logged and the success response returned.
Respond ==
  /\ post.pc = "respond"
  /\ post' = [post EXCEPT !.pc = "done", !.response = SuccessResponse]
  /\ UNCHANGED wizard

\* Lines 142-145: the catch block logs the error and returns status 500.
Catch ==
  /\ post.pc = "catch"
  /\ post' = [post EXCEPT !.pc = "done", !.response = ErrorResponse]
  /\ UNCHANGED wizard

HandlerStep == RequestJson \/ ResultsText \/ ResultsHtml \/ Respond \/ Catch

---------------------------------------------------------------------------
(* The wizard *)

\* steps.length
StepsLength == Len(<<"deploys", "team", "squads", "errors", "leadDays", "mttrHours">>)

\* The results card one step late.
atLast_oneLate == step > StepsLength

atLast == step >= StepsLength

\* No change event has reached the input on display since it was shown.
NoChange == [field |-> "none", v |-> <<>>]

\* steps[i].onChange: what the setter stores for the string v.
onChange(v) == IF v = <<>> THEN EmptyStr ELSE clampNum(ToNumber(v))

AllInputs ==
  DeploysInputs \cup TeamInputs \cup SquadsInputs \cup ErrorsInputs \cup
  LeadDaysInputs \cup MttrHoursInputs

\* onChange of every input string, converted once.
Stored == [v \in AllInputs |-> onChange(v)]

\* +v of every input string, converted once.
Plus == [v \in AllInputs |-> ToNumber(v)]

Init ==
  /\ step = 0
  /\ deploys = Int0(12)
  /\ team = Int0(20)
  /\ squads = Int0(4)
  /\ errors = Int0(2)
  /\ leadDays = Int0(3)
  /\ mttrHours = Int0(8)
  /\ lastChange = NoChange
  /\ post = PostIdle

\* The input on display is the one of steps[step].
ChangeDeploys(v) ==
  /\ ~atLast /\ step = 0
  /\ deploys' = Stored[v]
  /\ lastChange' = [field |-> "deploys", v |-> v]
  /\ UNCHANGED <<step, team, squads, errors, leadDays, mttrHours, post>>

ChangeTeam(v) ==
  /\ ~atLast /\ step = 1
  /\ team' = Stored[v]
  /\ lastChange' = [field |-> "team", v |-> v]
  /\ UNCHANGED <<step, deploys, squads, errors, leadDays, mttrHours, post>>

ChangeSquads(v) ==
  /\ ~atLast /\ step = 2
  /\ squads' = Stored[v]
  /\ lastChange' = [field |-> "squads", v |-> v]
  /\ UNCHANGED <<step, deploys, team, errors, leadDays, mttrHours, post>>

ChangeErrors(v) ==
  /\ ~atLast /\ step = 3
  /\ errors' = Stored[v]
  /\ lastChange' = [field |-> "errors", v |-> v]
  /\ UNCHANGED <<step, deploys, team, squads, leadDays, mttrHours, post>>

ChangeLeadDays(v) ==
  /\ ~atLast /\ step = 4
  /\ leadDays' = Stored[v]
  /\ lastChange' = [field |-> "leadDays", v |-> v]
  /\ UNCHANGED <<step, deploys, team, squads, errors, mttrHours, post>>

ChangeMttrHours(v) ==
  /\ ~atLast /\ step = 5
  /\ mttrHours' = Stored[v]
  /\ lastChange' = [field |-> "mttrHours", v |-> v]
  /\ UNCHANGED <<step, deploys, team, squads, errors, leadDays, post>>

Max2(a, b) == IF a >= b THEN a ELSE b
Min2(a, b) == IF a <= b THEN a ELSE b

fields == <<deploys, team, squads, errors, leadDays, mttrHours>>

\* setStep: another input, or the results card, comes on display.
setStep(s) ==
  /\ step' = s
  /\ lastChange' = NoChange
  /\ UNCHANGED <<fields, post>>

\* The in-card Back button (disabled at step 0).
Back == ~atLast /\ step # 0 /\ setStep(Max2(0, step - 1))

\* The in-card Next button.
NextStep == ~atLast /\ setStep(step + 1)

\* The floating Back button (disabled at step 0).
FloatingBack == ~atLast /\ step # 0 /\ setStep(Max2(0, step - 1))

\* The floating Next / See results button.
FloatingNext == ~atLast /\ setStep(Min2(StepsLength, step + 1))

\* The Edit answers button of the results card.
EditAnswers == atLast /\ setStep(0)

Next ==
  \/ \E v \in DeploysInputs : ChangeDeploys(v)
  \/ \E v \in TeamInputs : ChangeTeam(v)
  \/ \E v \in SquadsInputs : ChangeSquads(v)
  \/ \E v \in ErrorsInputs : ChangeErrors(v)
  \/ \E v \in LeadDaysInputs : ChangeLeadDays(v)
  \/ \E v \in MttrHoursInputs : ChangeMttrHours(v)
  \/ Back
  \/ NextStep
  \/ FloatingBack
  \/ FloatingNext
  \/ EditAnswers

\* The wizard: the component sends no request to the route.
Spec == Init /\ [][Next]_vars

NextPost ==
  \/ \E body \in Bodies : POST(body)
  \/ RequestJson
  \/ ResultsText
  \/ ResultsHtml
  \/ Respond
  \/ Catch

\* The route: requests arrive one after the other, the wizard stays as it is.
SpecPost == Init /\ [][NextPost]_vars

---------------------------------------------------------------------------
(* The projections over the modelled values, each evaluated once.  In every *)
(* state a claim reads the entry of the state's own values.                 *)

\* The numbers a field's validNumbers entry takes over the modelled inputs:
\* what the inputs store, the initial value, and the value used when empty.
ValuesOf(inputs, initial, whenEmpty) ==
  ({Stored[v] : v \in inputs} \ {EmptyStr}) \cup {initial, whenEmpty}

DeploysValues   == ValuesOf(DeploysInputs, Int0(12), Int0(0))
TeamValues      == ValuesOf(TeamInputs, Int0(20), Int0(0))
SquadsValues    == {OrOne(x) : x \in ValuesOf(SquadsInputs, Int0(4), Int0(1))}
ErrorsValues    == ValuesOf(ErrorsInputs, Int0(2), Int0(0))
LeadDaysValues  == ValuesOf(LeadDaysInputs, Int0(3), Null)
MttrHoursValues == ValuesOf(MttrHoursInputs, Int0(8), Null)

PerSquadTable == [d \in DeploysValues, s \in SquadsValues |-> perSquadOf(d, s)]
PerEngTable   == [d \in DeploysValues, t \in TeamValues |-> perEngOf(d, t)]
CfrTable      == [d \in DeploysValues, e \in ErrorsValues |-> cfrOf(d, e)]
CfrValues     == {CfrTable[d, e] : d \in DeploysValues, e \in ErrorsValues}
FreqPctTable  == [d \in DeploysValues |-> freqPctOf(d)]
CfrPctTable   == [c \in CfrValues |-> cfrPctOf(c)]
LtPctTable    == [ld \in LeadDaysValues |-> ltPctOf(ld)]
MttrPctTable  == [mh \in MttrHoursValues |-> mttrPctOf(mh)]
FreqGapTable  == [d \in DeploysValues |-> freqGapTextOf(freqTier(d), d)]
CfrGapTable   == [c \in CfrValues |-> cfrGapTextOf(cfrTier(c), c)]
LeadGapTable  == [ld \in LeadDaysValues |-> leadGapTextOf(leadTier(ld), ld)]
MttrGapTable  == [mh \in MttrHoursValues |-> mttrGapTextOf(mttrTier(mh), mh)]

\* The entries of the current state.
CfrNow      == CfrTable[validNumbers.d, validNumbers.e]
PerSquadNow == PerSquadTable[validNumbers.d, validNumbers.s]
PerEngNow   == PerEngTable[validNumbers.d, validNumbers.t]

---------------------------------------------------------------------------
(* Claims *)

\* C1: the frequency tier of the current deployments per month is elite
\* from 30 up, high in [4, 30), medium in [1, 4), low in (0, 1) and n/a at
\* 0 or below; 0 is n/a, 29.9 is high and 30 is elite.
C1_FreqTierBands ==
  LET d == validNumbers.d
      t == freqTier(d)
  IN  /\ (t = "elite")  <=> Ge(d, Int0(30))
      /\ (t = "high")   <=> (Ge(d, Int0(4)) /\ Lt(d, Int0(30)))
      /\ (t = "medium") <=> (Ge(d, Int0(1)) /\ Lt(d, Int0(4)))
      /\ (t = "low")    <=> (Gt(d, Int0(0)) /\ Lt(d, Int0(1)))
      /\ (t = "na")     <=> Le(d, Int0(0))
      /\ (d = Int0(0) => t = "na")
      /\ (d = Fin(299, 10) => t = "high")
      /\ (d = Int0(30) => t = "elite")

\* 29.9 deployments per month have been entered and classified.
C1_Witness ==
  /\ lastChange = [field |-> "deploys", v |-> <<"2", "9", ".", "9">>]
  /\ validNumbers.d = Fin(299, 10)
  /\ freq = "high"

\* C2: the change-failure-rate tier is n/a for null, elite up to 0.15,
\* medium in (0.15, 0.30] and low above 0.30; it is never high.
C2_CfrTierBands ==
  LET c == CfrNow
      t == cfrTier(c)
  IN  /\ (t = "na")     <=> (c = Null)
      /\ (t = "elite")  <=> (c # Null /\ Le(c, Fin(15, 100)))
      /\ (t = "medium") <=> (c # Null /\ Gt(c, Fin(15, 100)) /\ Le(c, Fin(30, 100)))
      /\ (t = "low")    <=> (c # Null /\ Gt(c, Fin(30, 100)))
      /\ t # "high"
      /\ (c = Fin(15, 100) => t = "elite")
      /\ (c = Fin(151, 1000) => t = "medium")
      /\ (c = Fin(31, 100) => t = "low")

\* A change failure rate of 0.151, just above the elite bound, is classified.
C2_Witness == cfr = Fin(151, 1000) /\ cfrT = "medium"

\* C3: lead time and MTTR are n/a for null and otherwise the first tier
\* whose inclusive upper bound (1 / 7 / 30 days, 1 / 24 / 168 hours) the
\* value does not exceed, else low; 0 is elite, not n/a.
C3_DurationTierBands ==
  LET ld == validNumbers.ld
      mh == validNumbers.mh
      lt == leadTier(ld)
      mt == mttrTier(mh)
  IN  /\ (lt = "na")     <=> (ld = Null)
      /\ (lt = "elite")  <=> (ld # Null /\ Le(ld, Int0(1)))
      /\ (lt = "high")   <=> (ld # Null /\ Gt(ld, Int0(1)) /\ Le(ld, Int0(7)))
      /\ (lt = "medium") <=> (ld # Null /\ Gt(ld, Int0(7)) /\ Le(ld, Int0(30)))
      /\ (lt = "low")    <=> (ld # Null /\ Gt(ld, Int0(30)))
      /\ (mt = "na")     <=> (mh = Null)
      /\ (mt = "elite")  <=> (mh # Null /\ Le(mh, Int0(1)))
      /\ (mt = "high")   <=> (mh # Null /\ Gt(mh, Int0(1)) /\ Le(mh, Int0(24)))
      /\ (mt = "medium") <=> (mh # Null /\ Gt(mh, Int0(24)) /\ Le(mh, Int0(168)))
      /\ (mt = "low")    <=> (mh # Null /\ Gt(mh, Int0(168)))
      /\ (ld = Int0(0) => lt = "elite")
      /\ (mh = Int0(0) => mt = "elite")

\* A lead time of 0 days is classified together with an MTTR of 169 hours.
C3_Witness ==
  /\ validNumbers.ld = Int0(0) /\ ltT = "elite"
  /\ validNumbers.mh = Int0(169) /\ mttrT = "low"

IsInteger(x) == x.k = "fin" /\ x.d = 1

InPercentRange(x) == IsInteger(x) /\ 0 <= x.n /\ x.n <= 100

\* C4: each of the four progress values is an integer in [0, 100]; the
\* change-failure-rate progress is 0 when the rate is null, and the
\* lead-time and MTTR progress are 0 when their field is absent.
C4_ProgressRange ==
  LET c  == CfrNow
      fp == FreqPctTable[validNumbers.d]
      cp == CfrPctTable[c]
      lp == LtPctTable[validNumbers.ld]
      mp == MttrPctTable[validNumbers.mh]
  IN  /\ InPercentRange(fp)
      /\ InPercentRange(cp)
      /\ InPercentRange(lp)
      /\ InPercentRange(mp)
      /\ (c = Null => cp = Int0(0))
      /\ (leadDays = EmptyStr => lp = Int0(0))
      /\ (mttrHours = EmptyStr => mp = Int0(0))

\* Both upper clamps act (the unclamped values would exceed 100) while the
\* rate is null and MTTR is absent.
C4_Witness ==
  /\ deploys = Int0(MaxSafe) /\ freqPct = Int0(100)
  /\ leadDays = Int0(0) /\ ltPct = Int0(100)
  /\ errors = EmptyStr /\ mttrHours = EmptyStr /\ mttrPct = Int0(0)

\* C5: progress is monotone after rounding and clamping: whenever a change
\* takes deployments per month from a to b >= a the frequency progress does
\* not fall, and whenever it takes a non-null change failure rate, lead time
\* or MTTR from a to a non-null b >= a, that metric's progress does not rise.
C5_ProgressMonotone ==
  [][ /\ (deploys' # deploys) =>
           LET a == validNumbers.d
               b == validNumbers'.d
           IN  Le(a, b) => Le(FreqPctTable[a], FreqPctTable[b])
      /\ (deploys' # deploys \/ errors' # errors) =>
           LET a == CfrTable[validNumbers.d, validNumbers.e]
               b == CfrTable[validNumbers'.d, validNumbers'.e]
           IN  (a # Null /\ b # Null /\ Le(a, b)) => Ge(CfrPctTable[a], CfrPctTable[b])
      /\ (leadDays' # leadDays) =>
           LET a == validNumbers.ld
               b == validNumbers'.ld
           IN  (a # Null /\ b # Null /\ Le(a, b)) => Ge(LtPctTable[a], LtPctTable[b])
      /\ (mttrHours' # mttrHours) =>
           LET a == validNumbers.mh
               b == validNumbers'.mh
           IN  (a # Null /\ b # Null /\ Le(a, b)) => Ge(MttrPctTable[a], MttrPctTable[b])
    ]_vars

\* All four metrics have been changed to values whose progress lies
\* strictly between 0 and 100.
C5_Witness ==
  /\ deploys = Int0(1) /\ freqPct = Int0(3)
  /\ errors = Fin(151, 1000) /\ cfrPct = Int0(50)
  /\ leadDays = Int0(7) /\ ltPct = Int0(79)
  /\ mttrHours = Int0(24) /\ mttrPct = Int0(86)

\* The number of squads as entered, 0 when the field is empty.
SquadCount == IF IsNumber(squads) THEN squads ELSE Int0(0)

\* C6 as stated: perSquad is deploysPerMonth / max(squadCount, 1) for
\* every squad count, fractional ones included.
C6_Original ==
  PerSquadNow = Div(validNumbers.d, MathMax(SquadCount, Int0(1)))

\* C6 amended: perSquad is deploysPerMonth divided by squadCount whenever
\* squadCount > 0 (a fractional squadCount below 1 divides as it is), and
\* by 1 when squadCount is 0 or absent; the divisor is never 0.
C6_PerSquadDivisor ==
  LET d       == validNumbers.d
      sc      == SquadCount
      divisor == IF Gt(sc, Int0(0)) THEN sc ELSE Int0(1)
      p       == PerSquadNow
  IN  /\ p = Div(d, divisor)
      /\ isFinite(p)
      /\ (Le(sc, Int0(0)) => p = d)
      /\ (Ge(sc, Int0(1)) => p = Div(d, MathMax(sc, Int0(1))))

\* Half a squad has been entered: 12 deployments give 24 per squad.
C6_Witness ==
  /\ lastChange = [field |-> "squads", v |-> <<"0", ".", "5">>]
  /\ validNumbers.d = Int0(12)
  /\ perSquad = Int0(24)

\* C7: the change failure rate is null exactly when deployments per month
\* are 0 or absent, and otherwise min(1, errors / deployments), in [0, 1];
\* perEngineer is deployments / teamSize when teamSize > 0 and 0 otherwise.
C7_CfrAndPerEngineer ==
  LET d == IF IsNumber(deploys) THEN deploys ELSE Int0(0)
      e == IF IsNumber(errors) THEN errors ELSE Int0(0)
      t == IF IsNumber(team) THEN team ELSE Int0(0)
      c == CfrNow
      ratio == Div(e, d)
  IN  /\ (c = Null) <=> (deploys = EmptyStr \/ deploys = Int0(0))
      /\ (c # Null) =>
           /\ c = (IF Le(ratio, Int0(1)) THEN ratio ELSE Int0(1))
           /\ Ge(c, Int0(0)) /\ Le(c, Int0(1))
      /\ PerEngNow = (IF Gt(t, Int0(0)) THEN Div(d, t) ELSE Int0(0))

\* More errors than deployments: the rate is capped at 1; and no team.
C7_Witness ==
  /\ deploys = Fin(1, 2) /\ errors = Int0(2) /\ cfr = Int0(1)
  /\ team = Int0(0) /\ perEng = Int0(0)

\* The field the last change event was delivered to, and its value now.
Changed == lastChange.field # "none"

ChangedValue ==
  CASE lastChange.field = "deploys"   -> deploys
    [] lastChange.field = "team"      -> team
    [] lastChange.field = "squads"    -> squads
    [] lastChange.field = "errors"    -> errors
    [] lastChange.field = "leadDays"  -> leadDays
    [] lastChange.field = "mttrHours" -> mttrHours

\* A missing value is the empty string; a malformed one is a string that
\* is not a number (NaN) or not a finite one.
Missing(v)   == v = <<>>
Malformed(v) == v # <<>> /\ ~isFinite(Plus[v])

\* validNumbers is what it is when f holds the number 0.
RequiredAsZero(f) ==
  CASE f = "deploys" -> validNumbers.d = Int0(0)
    [] f = "team"    -> validNumbers.t = Int0(0)
    [] f = "squads"  -> validNumbers.s = OrOne(Int0(0))
    [] f = "errors"  -> validNumbers.e = Int0(0)

OptionalAsNull(f) ==
  CASE f = "leadDays" ->
         /\ validNumbers.ld = Null
         /\ leadTier(validNumbers.ld) = "na"
         /\ LtPctTable[validNumbers.ld] = Int0(0)
    [] f = "mttrHours" ->
         /\ validNumbers.mh = Null
         /\ mttrTier(validNumbers.mh) = "na"
         /\ MttrPctTable[validNumbers.mh] = Int0(0)

OptionalAsZero(f) ==
  CASE f = "leadDays" ->
         /\ validNumbers.ld = Int0(0)
         /\ leadTier(validNumbers.ld) = "elite"
         /\ LtPctTable[validNumbers.ld] = Int0(100)
    [] f = "mttrHours" ->
         /\ validNumbers.mh = Int0(0)
         /\ mttrTier(validNumbers.mh) = "elite"
         /\ MttrPctTable[validNumbers.mh] = Int0(100)

Required == {"deploys", "team", "squads", "errors"}
Optional == {"leadDays", "mttrHours"}

\* C8 as stated: a missing or malformed value is used as 0 in a required
\* field and as null in an optional field; null gives tier n/a and progress
\* 0, an entered 0 gives tier elite and progress 100.
C8_Original ==
  Changed =>
    LET f == lastChange.field
        v == lastChange.v
    IN  /\ (f \in Required /\ (Missing(v) \/ Malformed(v))) => RequiredAsZero(f)
        /\ (f \in Optional /\ (Missing(v) \/ Malformed(v))) => OptionalAsNull(f)
        /\ (f \in Optional /\ v = <<"0">>) => OptionalAsZero(f)

\* C8 amended: input is never rejected.  A missing or malformed value in a
\* required field is used as 0 (for squads: as the divisor 1 that an
\* entered 0 gives).  In an optional field only a missing (empty) value is
\* used as null, giving tier n/a and progress 0; a malformed non-empty value
\* is stored as 0 like in any other field, and gives, like an entered 0,
\* tier elite and progress 100.
C8_Coercion ==
  Changed =>
    LET f == lastChange.field
        v == lastChange.v
    IN  /\ ChangedValue = EmptyStr \/ IsNumber(ChangedValue)
        /\ (f \in Required /\ (Missing(v) \/ Malformed(v))) => RequiredAsZero(f)
        /\ (f \in Optional /\ Missing(v)) => OptionalAsNull(f)
        /\ (f \in Optional /\ (Malformed(v) \/ v = <<"0">>)) => OptionalAsZero(f)

\* A word that is no number has been typed into the lead-time field.
C8_Witness ==
  /\ lastChange = [field |-> "leadDays", v |-> <<"a", "b", "c">>]
  /\ OptionalAsZero("leadDays")

\* C9: every stored field is empty or a finite number >= 0; a negative
\* value delivered by a change event is stored as 0, and so is a
\* non-finite one.
C9_FieldsClamped ==
  /\ \A i \in 1..Len(fields) :
       \/ fields[i] = EmptyStr
       \/ isFinite(fields[i]) /\ Ge(fields[i], Int0(0))
  /\ Changed =>
       LET v == lastChange.v
           x == Plus[v]
       IN  /\ (v # <<>> /\ isFinite(x) /\ Lt(x, Int0(0))) => ChangedValue = Int0(0)
           /\ (v # <<>> /\ ~isFinite(x)) => ChangedValue = Int0(0)
           /\ v = <<>> => ChangedValue = EmptyStr

\* A negative number has been typed into the errors field, while the
\* deployments field holds 0 and the team field is empty.
C9_Witness ==
  /\ lastChange = [field |-> "errors", v |-> <<"-", "5">>]
  /\ errors = Int0(0)
  /\ deploys = Int0(0) /\ team = EmptyStr

\* The advisory text of a metric, given the tier assigned to it: the
\* leader text for elite, the empty text for n/a, a template otherwise.
GapTextFits(t, text) ==
  /\ (t = "elite") => text = LEADER_TEXT
  /\ (t = "na") => text = EmptyText
  /\ (t \notin {"elite", "na"}) => (text.tpl # "" /\ text # LEADER_TEXT)

\* C10: each metric's advisory text, for the tier the classifier assigned,
\* is the leader text when elite, empty when n/a and a non-empty template
\* otherwise; for frequency tier high it names 30 - perMonth, for medium
\* 4 - perMonth and 30 - perMonth, all strictly positive.
C10_GapAdvisory ==
  LET d  == validNumbers.d
      c  == CfrNow
      ld == validNumbers.ld
      mh == validNumbers.mh
      ft == freqTier(d)
      fx == FreqGapTable[d]
  IN  /\ GapTextFits(ft, fx)
      /\ GapTextFits(cfrTier(c), CfrGapTable[c])
      /\ GapTextFits(leadTier(ld), LeadGapTable[ld])
      /\ GapTextFits(mttrTier(mh), MttrGapTable[mh])
      /\ (ft = "high") =>
           /\ fx.args = <<Sub(Int0(30), d)>>
           /\ Gt(Sub(Int0(30), d), Int0(0))
      /\ (ft = "medium") =>
           /\ fx.args = <<Sub(Int0(4), d), Sub(Int0(30), d)>>
           /\ Gt(Sub(Int0(4), d), Int0(0))
           /\ Gt(Sub(Int0(30), d), Int0(0))

\* One deployment per month with two errors: frequency medium, failure
\* rate low; the lead time is elite and the MTTR field is empty.
C10_Witness ==
  /\ deploys = Int0(1) /\ freq = "medium"
  /\ freqGapText.args = <<Int0(3), Int0(29)>>
  /\ errors = Int0(2) /\ cfrT = "low" /\ cfrGapText.args = <<Int0(100)>>
  /\ leadGapText = LEADER_TEXT
  /\ mttrHours = EmptyStr /\ mttrGapText = EmptyText

---------------------------------------------------------------------------
(* C11: the POST handler does not crash on malformed metrics.  Whatever the *)
(* request body (not JSON, null, a primitive, or an object whose metrics or *)
(* results is missing, or has fields missing or of the wrong type), no      *)
(* exception leaves the handler, a call that has ended has answered with    *)
(* the success response or with the error response of status 500, and a    *)
(* call that has not ended has a step to take.                              *)

MetricsMalformed(body) ==
  LET m == Get(body, "metrics")
  IN  \/ m.k # "object"
      \/ \E f \in {"freqT", "cfrT", "ltT", "mttrT"} : Get(m, f).k # "string"
      \/ \E f \in {"perSquad", "perEng"} : ~IsNumber(Get(m, f))

C11_PostAlwaysResponds ==
  /\ post.response # Escaped
  /\ post.pc = "done" => post.response \in {SuccessResponse, ErrorResponse}
  /\ post.pc \notin {"idle", "done"} => ENABLED HandlerStep

\* A request whose metrics lacks freqT and carries perSquad as a string has
\* been answered with status 500.
C11_Witness ==
  /\ post.pc = "done"
  /\ post.response = ErrorResponse
  /\ post.body.k = "object"
  /\ Get(post.body, "results").k = "object"
  /\ Get(post.body, "metrics").k = "object"
  /\ Get(Get(post.body, "metrics"), "freqT") = Undefined
  /\ Get(Get(post.body, "metrics"), "perSquad").k = "string"

---------------------------------------------------------------------------
(* C12: whatever the Back, Next / See results and Edit answers buttons of   *)
(* either pair have done, in any order, the step lies in 0..steps.length    *)
(* and the results card is on display exactly when step = steps.length.     *)
(* Back takes the step one down and never below 0, Next takes it one up and *)
(* never above steps.length, and Edit answers, offered on the results card  *)
(* only, takes it to 0.                                                      *)

StepInRange ==
  /\ step \in 0..StepsLength
  /\ atLast <=> step = StepsLength

NavigationEffect ==
  /\ (Back \/ FloatingBack) => step' = step - 1 /\ step' >= 0
  /\ (NextStep \/ FloatingNext) => step' = step + 1 /\ step' <= StepsLength
  /\ EditAnswers => step = StepsLength /\ step' = 0

C12_StepStaysInRange == []StepInRange /\ [][NavigationEffect]_vars

\* Next / See results has brought the results card on display, with the last
\* field edited on the way.
C12_Witness ==
  /\ step = StepsLength
  /\ atLast
  /\ lastChange = NoChange
  /\ mttrHours # Int0(8)

=============================================================================
